---- MODULE Spec2Model ----
(***************************************************************************)
(* Model of body-data (src/src/index.ts): toWebRequest, getParams, getBody *)
(* and bodyData, together with the platform operations they call           *)
(* (Request, URL, URLSearchParams, TextDecoder, JSON.parse).               *)
(*                                                                         *)
(* A JavaScript string is a sequence of one-character strings, a body is   *)
(* a sequence of bytes (an ASCII byte is written as its character, a       *)
(* non-ASCII byte as "xHH"), and the replacement character is written     *)
(* "U+FFFD".                                                               *)
(***************************************************************************)
EXTENDS Integers, Sequences, FiniteSets, TLC

\* How many calls are made on one request object.
MaxCalls == 2

----------------------------------------------------------------------------
(* Strings *)

Digits == {"0", "1", "2", "3", "4", "5", "6", "7", "8", "9"}

Lower == {"a", "b", "c", "d", "e", "f", "g", "h", "i", "j", "k", "l", "m",
          "n", "o", "p", "q", "r", "s", "t", "u", "v", "w", "x", "y", "z"}

Upper == {"A", "B", "C", "D", "E", "F", "G", "H", "I", "J", "K", "L", "M",
          "N", "O", "P", "Q", "R", "S", "T", "U", "V", "W", "X", "Y", "Z"}

\* String.prototype.startsWith: an exact, case-sensitive comparison.
StartsWith(s, p) == Len(s) >= Len(p) /\ SubSeq(s, 1, Len(p)) = p

\* The least index >= from at which c occurs in s, 0 when there is none.
IndexOf(s, c, from) ==
  LET I == {i \in from..Len(s) : s[i] = c}
  IN IF I = {} THEN 0 ELSE CHOOSE i \in I : \A j \in I : i <= j

\* The least index >= from whose character is not in cs, Len(s)+1 when none.
SkipWhile(s, cs, from) ==
  LET I == {i \in from..Len(s) : s[i] \notin cs}
  IN IF I = {} THEN Len(s) + 1 ELSE CHOOSE i \in I : \A j \in I : i <= j

\* An optional string: undefined / null, or a value.
None == [has |-> FALSE, v |-> <<>>]

Some(s) == [has |-> TRUE, v |-> s]

\* JavaScript truthiness of an optional string: undefined, null and "" are falsy.
Truthy(o) == o.has /\ o.v # <<>>

----------------------------------------------------------------------------
(* JavaScript values *)

JSUndefined == [type |-> "undefined", props |-> <<>>, items |-> <<>>, prim |-> <<>>]

JSNull == [type |-> "null", props |-> <<>>, items |-> <<>>, prim |-> <<>>]

JSBoolean(w) == [type |-> "boolean", props |-> <<>>, items |-> <<>>, prim |-> w]

JSNumber(ds) == [type |-> "number", props |-> <<>>, items |-> <<>>, prim |-> ds]

JSString(s) == [type |-> "string", props |-> <<>>, items |-> <<>>, prim |-> s]

JSArray(xs) == [type |-> "array", props |-> <<>>, items |-> xs, prim |-> <<>>]

\* A plain object: a function from its own property names to their values.
JSObject(f) == [type |-> "object", props |-> f, items |-> <<>>, prim |-> <<>>]

\* The literal {}.
EmptyObject == JSObject(<<>>)

\* The literal { text: buffer }.
TextObject(buffer) == JSObject(<<"t", "e", "x", "t">> :> JSString(buffer))

\* The literal { raw: buffer }.
RawObject(buffer) == JSObject(<<"r", "a", "w">> :> JSString(buffer))

----------------------------------------------------------------------------
(* TextDecoder *)

Utf8Label == <<"u", "t", "f", "-", "8">>

\* new TextDecoder(label) throws a RangeError for a label that names no encoding.
KnownEncoding(label) == label = Utf8Label

BOM == <<"xEF", "xBB", "xBF">>

HighBytes == {"xEF", "xBB", "xBF", "xFF"}

\* new TextDecoder("utf-8").decode(ab): not fatal, BOM not ignored, so a leading
\* byte order mark is dropped and a byte that starts no well-formed sequence
\* becomes U+FFFD. (Of the well-formed multi-byte sequences only the BOM is in
\* Bodies.)
TextDecode(bytes) ==
  LET rest == IF StartsWith(bytes, BOM) THEN SubSeq(bytes, 4, Len(bytes)) ELSE bytes
  IN [i \in 1..Len(rest) |-> IF rest[i] \in HighBytes THEN "U+FFFD" ELSE rest[i]]

----------------------------------------------------------------------------
(* JSON.parse *)
(* Objects, arrays, strings without escapes, non-negative integers, true,  *)
(* false and null, with spaces as white space.                             *)

\* s[i] is the opening quote: the string, and the index after its closing
\* quote (0 when there is none).
ParseString(s, i) ==
  LET close == IndexOf(s, "\"", i + 1)
  IN IF close = 0 THEN [ok |-> FALSE, val |-> JSUndefined, next |-> i]
     ELSE [ok |-> TRUE, val |-> JSString(SubSeq(s, i + 1, close - 1)), next |-> close + 1]

\* s[i] is a digit; a number starting with 0 is the single digit 0.
ParseNumber(s, i) ==
  LET end == IF s[i] = "0" THEN i + 1 ELSE SkipWhile(s, Digits, i)
  IN [ok |-> TRUE, val |-> JSNumber(SubSeq(s, i, end - 1)), next |-> end]

ParseLiteral(s, i, word, v) ==
  IF i + Len(word) - 1 <= Len(s) /\ SubSeq(s, i, i + Len(word) - 1) = word
  THEN [ok |-> TRUE, val |-> v, next |-> i + Len(word)]
  ELSE [ok |-> FALSE, val |-> JSUndefined, next |-> i]

\* A value that is no object and no array, at index i.
ParseScalar(s, i) ==
  CASE s[i] = "\"" -> ParseString(s, i)
    [] s[i] \in Digits -> ParseNumber(s, i)
    [] s[i] = "n" -> ParseLiteral(s, i, <<"n", "u", "l", "l">>, JSNull)
    [] s[i] = "t" -> ParseLiteral(s, i, <<"t", "r", "u", "e">>, JSBoolean(<<"t", "r", "u", "e">>))
    [] s[i] = "f" ->
         ParseLiteral(s, i, <<"f", "a", "l", "s", "e">>, JSBoolean(<<"f", "a", "l", "s", "e">>))
    [] OTHER -> [ok |-> FALSE, val |-> JSUndefined, next |-> i]

\* A member name and its colon from index i on: the name, and the index
\* after the colon.
ParseKey(s, i) ==
  LET k == SkipWhile(s, {" "}, i)
      key == ParseString(s, k)
      c == SkipWhile(s, {" "}, key.next)
  IN IF k <= Len(s) /\ s[k] = "\"" /\ key.ok /\ c <= Len(s) /\ s[c] = ":"
     THEN [ok |-> TRUE, val |-> key.val.prim, next |-> c + 1]
     ELSE [ok |-> FALSE, val |-> <<>>, next |-> i]

\* The parser is a machine with a stack of the objects and arrays that are
\* open: in mode "value" it expects a value at index i, in mode "after" it has
\* read the value val that ends before index i.
Frame(kind, props, items, key) ==
  [kind |-> kind, props |-> props, items |-> items, key |-> key]

ParseState(mode, i, stack, val) == [mode |-> mode, i |-> i, stack |-> stack, val |-> val]

ParseFail == ParseState("fail", 0, <<>>, JSUndefined)

\* One step from mode "value".
ParseValueStep(s, st) ==
  LET j == SkipWhile(s, {" "}, st.i)
      n == SkipWhile(s, {" "}, j + 1)
      key == ParseKey(s, j + 1)
      v == ParseScalar(s, j)
  IN IF j > Len(s) THEN ParseFail
     ELSE IF s[j] = "{"
     THEN IF n <= Len(s) /\ s[n] = "}" THEN ParseState("after", n + 1, st.stack, EmptyObject)
          ELSE IF key.ok
          THEN ParseState("value", key.next,
                          <<Frame("object", <<>>, <<>>, key.val)>> \o st.stack, JSUndefined)
          ELSE ParseFail
     ELSE IF s[j] = "["
     THEN IF n <= Len(s) /\ s[n] = "]" THEN ParseState("after", n + 1, st.stack, JSArray(<<>>))
          ELSE ParseState("value", j + 1,
                          <<Frame("array", <<>>, <<>>, <<>>)>> \o st.stack, JSUndefined)
     ELSE IF v.ok THEN ParseState("after", v.next, st.stack, v.val)
     ELSE ParseFail

\* One step from mode "after": the value goes into the innermost open object
\* (a repeated name keeps its last value) or array, which then closes or goes
\* on; with nothing open the text must end.
ParseAfterStep(s, st) ==
  LET d == SkipWhile(s, {" "}, st.i)
      top == Head(st.stack)
      props == (top.key :> st.val) @@ top.props
      items == Append(top.items, st.val)
      key == ParseKey(s, d + 1)
  IN IF st.stack = <<>>
     THEN IF d > Len(s) THEN ParseState("ok", d, <<>>, st.val) ELSE ParseFail
     ELSE IF d > Len(s) THEN ParseFail
     ELSE IF top.kind = "object"
     THEN IF s[d] = "}" THEN ParseState("after", d + 1, Tail(st.stack), JSObject(props))
          ELSE IF s[d] = "," /\ key.ok
          THEN ParseState("value", key.next,
                          <<Frame("object", props, <<>>, key.val)>> \o Tail(st.stack),
                          JSUndefined)
          ELSE ParseFail
     ELSE IF s[d] = "]" THEN ParseState("after", d + 1, Tail(st.stack), JSArray(items))
          ELSE IF s[d] = ","
          THEN ParseState("value", d + 1,
                          <<Frame("array", <<>>, items, <<>>)>> \o Tail(st.stack), JSUndefined)
          ELSE ParseFail

RECURSIVE ParseRun(_, _)
ParseRun(s, st) ==
  IF st.mode \in {"ok", "fail"} THEN st
  ELSE ParseRun(s, IF st.mode = "value" THEN ParseValueStep(s, st) ELSE ParseAfterStep(s, st))

\* What the machine stopped in, as a result.
ParseResult(st) == [ok |-> st.mode = "ok", val |-> st.val]

\* JSON.parse(text): ok = FALSE stands for the SyntaxError it throws.
JSONParse(text) == ParseResult(ParseRun(text, ParseState("value", 1, <<>>, JSUndefined)))

----------------------------------------------------------------------------
(* URLSearchParams and Object.fromEntries *)

RECURSIVE Split(_, _)
\* The pieces of s between occurrences of sep.
Split(s, sep) ==
  LET i == IndexOf(s, sep, 1)
  IN IF i = 0 THEN <<s>>
     ELSE <<SubSeq(s, 1, i - 1)>> \o Split(SubSeq(s, i + 1, Len(s)), sep)

\* The bytes percent-decoding knows in this model, as the characters they are.
PercentTable ==
  (<<"2", "0">> :> " ") @@ (<<"2", "6">> :> "&") @@ (<<"2", "B">> :> "+") @@
  (<<"3", "D">> :> "=") @@ (<<"3", "F">> :> "?")

RECURSIVE PercentDecode(_)
\* A "%" followed by two hex digits becomes that byte; any other "%" stays.
PercentDecode(s) ==
  LET escape == s[1] = "%" /\ Len(s) >= 3 /\ <<s[2], s[3]>> \in DOMAIN PercentTable
      first == IF escape THEN PercentTable[<<s[2], s[3]>>] ELSE s[1]
      rest == SubSeq(s, IF escape THEN 4 ELSE 2, Len(s))
  IN IF s = <<>> THEN <<>> ELSE <<first>> \o PercentDecode(rest)

\* "+" is a space in application/x-www-form-urlencoded.
PlusToSpace(s) == [i \in 1..Len(s) |-> IF s[i] = "+" THEN " " ELSE s[i]]

FormDecode(s) == PercentDecode(PlusToSpace(s))

RECURSIVE ParsePieces(_)
\* The name-value pairs of the non-empty pieces, a piece being split at its
\* first "=".
ParsePieces(pieces) ==
  IF pieces = <<>> THEN <<>>
  ELSE LET p == Head(pieces)
           eq == IndexOf(p, "=", 1)
           name == IF eq = 0 THEN p ELSE SubSeq(p, 1, eq - 1)
           value == IF eq = 0 THEN <<>> ELSE SubSeq(p, eq + 1, Len(p))
       IN (IF p = <<>> THEN <<>> ELSE << <<FormDecode(name), FormDecode(value)>> >>)
          \o ParsePieces(Tail(pieces))

\* The application/x-www-form-urlencoded parser: a list of name-value pairs.
ParseFormUrlencoded(s) == ParsePieces(Split(s, "&"))

\* new URLSearchParams(init) for a string: one leading "?" is dropped.
URLSearchParams(init) ==
  ParseFormUrlencoded(IF init # <<>> /\ init[1] = "?" THEN Tail(init) ELSE init)

RECURSIVE ObjectFromEntries(_)
\* Object.fromEntries over name-value pairs of strings: a later pair of the
\* same name overrides an earlier one.
ObjectFromEntries(pairs) ==
  IF pairs = <<>> THEN <<>>
  ELSE LET last == pairs[Len(pairs)]
       IN (last[1] :> JSString(last[2]))
          @@ ObjectFromEntries(SubSeq(pairs, 1, Len(pairs) - 1))

----------------------------------------------------------------------------
(* URL *)

Http == <<"h", "t", "t", "p">>

Https == <<"h", "t", "t", "p", "s">>

Localhost == <<"h", "t", "t", "p", ":", "/", "/", "l", "o", "c", "a", "l", "h", "o", "s", "t">>

IsScheme(s) ==
  /\ s # <<>>
  /\ s[1] \in Lower \cup Upper
  /\ \A i \in 1..Len(s) : s[i] \in Lower \cup Upper \cup Digits \cup {"+", "-", "."}

\* The query of a URL string: what follows the first "?" up to a "#".
QueryOf(s) ==
  LET q == IndexOf(s, "?", 1)
      h == IndexOf(s, "#", 1)
  IN IF q = 0 \/ (h # 0 /\ h < q) THEN <<>>
     ELSE SubSeq(s, q + 1, IF h = 0 THEN Len(s) ELSE h - 1)

\* new URL(s) without a base: ok = FALSE stands for the TypeError it throws.
\* The string needs a scheme; an http(s) URL needs a host, and a port of
\* digits only.
ParseURL(s) ==
  LET colon == IndexOf(s, ":", 1)
      scheme == SubSeq(s, 1, colon - 1)
      a == SkipWhile(s, {"/"}, colon + 1)
      e == SkipWhile(s, (Lower \cup Upper \cup Digits \cup {".", "-", ":"}), a)
      auth == SubSeq(s, a, e - 1)
      p == IndexOf(auth, ":", 1)
      host == IF p = 0 THEN auth ELSE SubSeq(auth, 1, p - 1)
      port == IF p = 0 THEN <<>> ELSE SubSeq(auth, p + 1, Len(auth))
      valid == /\ colon > 1
               /\ IsScheme(scheme)
               /\ scheme \in {Http, Https} =>
                    /\ host # <<>>
                    /\ \A i \in 1..Len(port) : port[i] \in Digits
                    /\ e > Len(s) \/ s[e] \in {"/", "?", "#"}
  IN [ok |-> valid, searchParams |-> IF valid THEN ParseFormUrlencoded(QueryOf(s)) ELSE <<>>]

----------------------------------------------------------------------------
(* Inputs *)

JsonType == <<"a", "p", "p", "l", "i", "c", "a", "t", "i", "o", "n", "/", "j", "s", "o", "n">>

FormType == <<"a", "p", "p", "l", "i", "c", "a", "t", "i", "o", "n", "/", "x", "-", "w", "w", "w", "-", "f", "o", "r", "m", "-", "u", "r", "l", "e", "n", "c", "o", "d", "e", "d">>

TextType == <<"t", "e", "x", "t", "/", "p", "l", "a", "i", "n">>

MultipartType == <<"m", "u", "l", "t", "i", "p", "a", "r", "t", "/", "f", "o", "r", "m", "-", "d", "a", "t", "a">>

\* application/json; charset=utf-8
JsonCharset == JsonType \o <<";", " ", "c", "h", "a", "r", "s", "e", "t", "=", "u", "t", "f", "-", "8">>

\* Application/JSON
JsonCapitals == <<"A", "p", "p", "l", "i", "c", "a", "t", "i", "o", "n", "/", "J", "S", "O", "N">>

\* multipart/form-data; boundary=X
MultipartBoundary == MultipartType \o <<";", " ", "b", "o", "u", "n", "d", "a", "r", "y", "=", "X">>

ImagePng == <<"i", "m", "a", "g", "e", "/", "p", "n", "g">>

\* The content-type header of a request: absent, or one of these values.
HeaderTypes == {None, Some(JsonCharset), Some(JsonCapitals), Some(FormType),
                Some(MultipartBoundary), Some(ImagePng)}

\* The bodies a request carries, as bytes.
Bodies == {
  <<>>,
  <<"{", "\"", "a", "\"", ":", "1", "}">>,
  <<"{", "a", ":">>,
  <<"a", "=", "1", "&", "a", "=", "2">>,
  <<"[", "1", ",", "2", "]">>,
  <<"n", "u", "l", "l">>,
  BOM,
  <<"h", "i", "xFF">> }

\* The url of a legacy request: the origin form /x?a=1&a=2&b=hello, the
\* absolute form http://h/p?q=1, and http://h:x/, whose port is no number.
RelativeUrl == <<"/", "x", "?", "a", "=", "1", "&", "a", "=", "2", "&", "b", "=", "h", "e", "l", "l", "o">>

AbsoluteUrl == <<"h", "t", "t", "p", ":", "/", "/", "h", "/", "p", "?", "q", "=", "1">>

BadUrl == <<"h", "t", "t", "p", ":", "/", "/", "h", ":", "x", "/">>

Methods == {"GET", "HEAD", "POST", "TRACE", "get"}

\* A legacy request (http.IncomingMessage): method, url, headers and the
\* readable stream it is; fails says that the stream errors or is aborted
\* before its end.
\* Every method and url is tried with two bodies, every header and body
\* under POST.
NodeRequests ==
  [kind : {"node"}, method : Methods, url : {RelativeUrl, AbsoluteUrl, BadUrl},
   contentType : {Some(JsonCharset)}, hasBody : {TRUE},
   bytes : {<<>>, <<"{", "\"", "a", "\"", ":", "1", "}">>}, fails : {FALSE},
   wraps : {FALSE}]
  \cup
  [kind : {"node"}, method : {"POST"}, url : {RelativeUrl},
   contentType : HeaderTypes, hasBody : {TRUE}, bytes : Bodies, fails : BOOLEAN,
   wraps : {FALSE}]

\* A standard Request: its url parsed when it was constructed, no body under
\* GET, a body under POST; wraps says that the body is a legacy stream the
\* Request was constructed around.
WebRequests ==
  [kind : {"web"}, method : {"GET"}, url : {AbsoluteUrl},
   contentType : HeaderTypes, hasBody : {FALSE}, bytes : {<<>>}, fails : {FALSE},
   wraps : {FALSE}]
  \cup
  [kind : {"web"}, method : {"POST"}, url : {AbsoluteUrl},
   contentType : HeaderTypes, hasBody : {TRUE}, bytes : Bodies, fails : BOOLEAN,
   wraps : {FALSE}]

Requests == NodeRequests \cup WebRequests

Bogus == <<"b", "o", "g", "u", "s">>

\* IBodyOptions; onError says whether a handler is supplied.
Options ==
  [encoding : {None, Some(Bogus)}, raw : BOOLEAN,
   contentType : {None, Some(<<>>), Some(TextType)},
   backContentType : {None, Some(JsonType)}, onError : BOOLEAN]

----------------------------------------------------------------------------
(* Request *)

NoRequest ==
  [kind |-> "none", method |-> "", url |-> <<>>, contentType |-> None,
   hasBody |-> FALSE, bytes |-> <<>>, fails |-> FALSE, wraps |-> FALSE]

Returned(w) == [ok |-> TRUE, err |-> "none", webReq |-> w]

Thrown(e) == [ok |-> FALSE, err |-> e, webReq |-> NoRequest]

\* The Request constructor writes a method that matches a standard one in
\* any case in upper case.
NormalizeMethod(m) ==
  CASE m = "get" -> "GET"
    [] m = "head" -> "HEAD"
    [] m = "post" -> "POST"
    [] m = "trace" -> "TRACE"
    [] OTHER -> m

\* The body given to the Request constructor: none, or the legacy request
\* itself as a stream.
NoStream == [has |-> FALSE, bytes |-> <<>>, fails |-> FALSE]

StreamOf(r) == [has |-> TRUE, bytes |-> r.bytes, fails |-> r.fails]

\* new Request(url, { method, headers, body: stream, duplex: 'half' }): it
\* throws a TypeError for a url that does not parse, for a forbidden method
\* and for a body under GET or HEAD, and reads nothing from the stream.
NewRequest(url, method, headers, stream) ==
  IF ~ParseURL(url).ok THEN Thrown("TypeError: Invalid URL")
  ELSE IF NormalizeMethod(method) \in {"CONNECT", "TRACE", "TRACK"}
       THEN Thrown("TypeError: Method is forbidden")
  ELSE IF stream.has /\ NormalizeMethod(method) \in {"GET", "HEAD"}
       THEN Thrown("TypeError: Request with GET/HEAD method cannot have body")
       ELSE Returned([kind |-> "web", method |-> NormalizeMethod(method), url |-> url,
                      contentType |-> headers, hasBody |-> stream.has,
                      bytes |-> stream.bytes, fails |-> stream.fails,
                      wraps |-> stream.has])

\* A variant of fullUrl that completes every url.
fullUrl_AlwaysCompleted(url) == Localhost \o url

\* url?.startsWith('http') ? url : `http://localhost${url}`
fullUrl(url) == IF StartsWith(url, Http) THEN url ELSE Localhost \o url

\* A variant of body that leaves out HEAD.
body_OnlyGet(r) == IF r.method = "GET" THEN NoStream ELSE StreamOf(r)

\* method === 'GET' || method === 'HEAD' ? undefined : nodeReq
body(r) == IF r.method = "GET" \/ r.method = "HEAD" THEN NoStream ELSE StreamOf(r)

\* toWebRequest(req): a standard Request is returned as it is.
toWebRequest(r) ==
  IF r.kind = "web" THEN Returned(r)
  ELSE NewRequest(fullUrl(r.url), r.method, r.contentType, body(r))

\* A variant of arrayBuffer in which a body can be read again.
arrayBuffer_ReadAgain(w, used) ==
  IF ~w.hasBody
  THEN [settles |-> {[ok |-> TRUE, err |-> "none", bytes |-> <<>>]}, used |-> used]
  ELSE IF w.fails
  THEN [settles |-> {[ok |-> FALSE, err |-> "Error: stream", bytes |-> <<>>]}, used |-> TRUE]
  ELSE [settles |-> {[ok |-> TRUE, err |-> "none", bytes |-> w.bytes]}, used |-> TRUE]

\* webReq.arrayBuffer() on the canonical request w, used saying whether the
\* body of the request was read before: the results the promise may settle
\* with, and whether the body is read afterwards. A Request without a body
\* gives no bytes; a Request whose body was read rejects; a new Request around
\* a legacy stream that was read before sees, depending on the platform, an
\* empty stream or an error.
arrayBuffer(w, used) ==
  LET bytes(b) == [ok |-> TRUE, err |-> "none", bytes |-> b]
      fail(e) == [ok |-> FALSE, err |-> e, bytes |-> <<>>]
  IN IF ~w.hasBody THEN [settles |-> {bytes(<<>>)}, used |-> used]
     ELSE IF used /\ ~w.wraps
          THEN [settles |-> {fail("TypeError: Body is unusable")}, used |-> TRUE]
     ELSE IF used
          THEN [settles |-> {bytes(<<>>), fail("Error: stream")}, used |-> TRUE]
     ELSE IF w.fails THEN [settles |-> {fail("Error: stream")}, used |-> TRUE]
     ELSE [settles |-> {bytes(w.bytes)}, used |-> TRUE]

----------------------------------------------------------------------------
(* getParams *)

\* const { searchParams } = new URL(urlStr); Object.fromEntries(searchParams),
\* u being what new URL came to.
SearchParams(u) ==
  IF ~u.ok
  THEN [ok |-> FALSE, err |-> "TypeError: Invalid URL", by |-> "URL", value |-> JSUndefined]
  ELSE [ok |-> TRUE, err |-> "none", by |-> "none",
        value |-> JSObject(ObjectFromEntries(u.searchParams))]

\* getParams from its second line on, w being what toWebRequest came to; by
\* says which call threw.
Params(w) ==
  IF ~w.ok THEN [ok |-> FALSE, err |-> w.err, by |-> "toWebRequest", value |-> JSUndefined]
  ELSE SearchParams(ParseURL(w.webReq.url))

\* getParams(req)
getParams(r) == Params(toWebRequest(r))

----------------------------------------------------------------------------
(* getBody *)

\* What the try block comes to: the value it returns or the error it throws,
\* with the decoded text, the content type and the branch taken so far.
Return(v, buffer, contentType, branch) ==
  [threw |-> FALSE, err |-> "none", value |-> v, buffer |-> buffer,
   contentType |-> contentType, branch |-> branch]

Throw(e, buffer, contentType, branch) ==
  [threw |-> TRUE, err |-> e, value |-> JSUndefined, buffer |-> buffer,
   contentType |-> contentType, branch |-> branch]

\* A variant of contentType in which the header comes before the override.
contentType_HeaderFirst(o, w) ==
  IF Truthy(w.contentType) THEN w.contentType.v
  ELSE IF Truthy(o.contentType) THEN o.contentType.v
  ELSE IF Truthy(o.backContentType) THEN o.backContentType.v
  ELSE <<>>

\* options.contentType || webReq.headers.get('content-type')
\*   || options.backContentType || ''
contentType(o, w) ==
  IF Truthy(o.contentType) THEN o.contentType.v
  ELSE IF Truthy(w.contentType) THEN w.contentType.v
  ELSE IF Truthy(o.backContentType) THEN o.backContentType.v
  ELSE <<>>

\* return JSON.parse(buffer), j being what JSON.parse came to.
Parsed(j, ct, buffer) ==
  IF j.ok THEN Return(j.val, buffer, Some(ct), "json")
  ELSE Throw("SyntaxError", buffer, Some(ct), "json")

\* The chain of startsWith tests on the content type ct.
Dispatch(ct, buffer) ==
  IF StartsWith(ct, JsonType) THEN Parsed(JSONParse(buffer), ct, buffer)
  ELSE IF StartsWith(ct, FormType)
  THEN Return(JSObject(ObjectFromEntries(URLSearchParams(buffer))), buffer, Some(ct),
              "urlencoded")
  ELSE IF StartsWith(ct, TextType) THEN Return(TextObject(buffer), buffer, Some(ct), "text")
  ELSE IF StartsWith(ct, MultipartType)
  THEN Return(RawObject(buffer), buffer, Some(ct), "multipart")
  ELSE Return(RawObject(buffer), buffer, Some(ct), "other")

\* A variant of Decoded that tests options.raw before the empty text.
Decoded_RawFirst(o, w, buffer) ==
  IF o.raw THEN Return(RawObject(buffer), buffer, None, "raw")
  ELSE IF buffer = <<>> THEN Return(EmptyObject, buffer, None, "empty")
  ELSE Dispatch(contentType(o, w), buffer)

\* A variant of Decoded that tests options.raw after the dispatch on JSON.
Decoded_RawLate(o, w, buffer) ==
  IF buffer = <<>> THEN Return(EmptyObject, buffer, None, "empty")
  ELSE IF StartsWith(contentType(o, w), JsonType) THEN Dispatch(contentType(o, w), buffer)
  ELSE IF o.raw THEN Return(RawObject(buffer), buffer, None, "raw")
  ELSE Dispatch(contentType(o, w), buffer)

\* From the decoded text on: the two early returns, then the dispatch.
Decoded(o, w, buffer) ==
  IF buffer = <<>> THEN Return(EmptyObject, buffer, None, "empty")
  ELSE IF o.raw THEN Return(RawObject(buffer), buffer, None, "raw")
  ELSE Dispatch(contentType(o, w), buffer)

\* options.encoding || 'utf-8'
encoding(o) == IF Truthy(o.encoding) THEN o.encoding.v ELSE Utf8Label

\* The try block, ab being what arrayBuffer() settled with.
Try(o, w, ab) ==
  IF ~ab.ok THEN Throw(ab.err, <<>>, None, "none")
  ELSE IF ~KnownEncoding(encoding(o)) THEN Throw("RangeError", <<>>, None, "none")
  ELSE Decoded(o, w, TextDecode(ab.bytes))

\* A variant of Catch that never calls the handler.
Catch_Silent(o, t) == [value |-> EmptyObject, onError |-> <<>>, try |-> t]

\* The catch block: the handler, when there is one, is called with the
\* error, and {} is returned. The handler is an observer: it returns, and
\* what it returns is not used.
Catch(o, t) ==
  [value |-> EmptyObject, onError |-> IF o.onError THEN <<t.err>> ELSE <<>>, try |-> t]

\* What getBody resolves to and the calls of the handler it made, t being
\* what the try block came to.
Settled(o, t) ==
  IF t.threw THEN Catch(o, t) ELSE [value |-> t.value, onError |-> <<>>, try |-> t]

\* getBody from the point where arrayBuffer() settles with ab.
getBody(o, w, ab) == Settled(o, Try(o, w, ab))

----------------------------------------------------------------------------
(* bodyData *)

ParamsKey == <<"p", "a", "r", "a", "m", "s">>

BodyKey == <<"b", "o", "d", "y">>

\* The object bodyData returns: { params, body }.
bodyData(p, b) == JSObject((ParamsKey :> p) @@ (BodyKey :> b))

----------------------------------------------------------------------------
(* The calls made on one request object *)

VARIABLES
  req,           \* the request object the calls are made on
  used,          \* whether its body has been read
  calls,         \* the calls made on it so far
  drained,       \* the getBody and bodyData calls on it that have completed
  op,            \* the function called last
  pc,            \* "idle", "draining" (suspended at the await) or "done"
  options,       \* the options the caller passes to its calls
  webReq,        \* its canonical request
  settles,       \* what the pending arrayBuffer() may settle with
  params,        \* bodyData: the params, computed before the await
  outcome,       \* "pending", "resolved", "rejected", "returned" or "thrown"
  value,         \* the value resolved to or returned
  error,         \* the error rejected with or thrown
  by,            \* the call that raised it
  onErrorCalls,  \* the errors options.onError was called with
  ab,            \* what arrayBuffer() settled with
  deliveries,    \* the completed calls that resolved to a body other than {}
  try            \* what the try block of getBody came to

vars == <<req, used, calls, drained, op, pc, options, webReq, settles, params,
          outcome, value, error, by, onErrorCalls, ab, deliveries, try>>

Untried == Return(JSUndefined, <<>>, None, "none")

Unsettled == [ok |-> FALSE, err |-> "pending", bytes |-> <<>>]

Init ==
  /\ req \in Requests
  /\ used = FALSE
  /\ calls = 0
  /\ drained = 0
  /\ op = "none"
  /\ pc = "idle"
  /\ options \in Options
  /\ webReq = NoRequest
  /\ settles = {}
  /\ params = JSUndefined
  /\ outcome = "none"
  /\ value = JSUndefined
  /\ error = "none"
  /\ by = "none"
  /\ onErrorCalls = <<>>
  /\ ab = Unsettled
  /\ deliveries = 0
  /\ try = Untried

\* The call rejects (or throws) with error e raised in f before any await.
Fails(f, e, how) ==
  /\ pc' = "done"
  /\ outcome' = how
  /\ error' = e
  /\ by' = f
  /\ value' = JSUndefined
  /\ webReq' = NoRequest
  /\ settles' = {}
  /\ params' = JSUndefined
  /\ UNCHANGED used

\* getBody suspends at await webReq.arrayBuffer() on the canonical request
\* w, a being what arrayBuffer() does; p is the params bodyData has computed.
Awaits(w, p, a) ==
  /\ pc' = "draining"
  /\ outcome' = "pending"
  /\ error' = "none"
  /\ by' = "none"
  /\ value' = JSUndefined
  /\ webReq' = w
  /\ settles' = a.settles
  /\ used' = a.used
  /\ params' = p

\* A call is made: when no call is in progress.
Calls(f) ==
  /\ pc \in {"idle", "done"}
  /\ calls < MaxCalls
  /\ calls' = calls + 1
  /\ op' = f
  /\ onErrorCalls' = <<>>
  /\ ab' = Unsettled
  /\ try' = Untried
  /\ UNCHANGED <<req, options, drained, deliveries>>

\* getBody(req, options) up to its await: toWebRequest is called before the
\* try block is entered, so what it throws rejects the promise.
GetBodyCall ==
  /\ Calls("getBody")
  /\ \E w \in {toWebRequest(req)} :
       IF w.ok THEN Awaits(w.webReq, JSUndefined, arrayBuffer(w.webReq, used))
       ELSE Fails("toWebRequest", w.err, "rejected")

\* bodyData(req, options) up to the await in getBody: toWebRequest, then
\* getParams and getBody on the canonical request.
BodyDataCall ==
  /\ Calls("bodyData")
  /\ \E w \in {toWebRequest(req)} :
       IF ~w.ok THEN Fails("toWebRequest", w.err, "rejected")
       ELSE \E p \in {getParams(w.webReq)}, b \in {toWebRequest(w.webReq)} :
              IF ~p.ok THEN Fails("getParams", p.err, "rejected")
              ELSE IF ~b.ok THEN Fails("getBody", b.err, "rejected")
              ELSE Awaits(b.webReq, p.value, arrayBuffer(b.webReq, used))

\* getParams(req): no await.
GetParamsCall ==
  /\ Calls("getParams")
  /\ \E p \in {getParams(req)} :
       IF ~p.ok THEN Fails(IF p.by = "toWebRequest" THEN "toWebRequest" ELSE "getParams",
                           p.err, "thrown")
       ELSE /\ pc' = "done"
            /\ outcome' = "returned"
            /\ error' = "none"
            /\ by' = "none"
            /\ value' = p.value
            /\ webReq' = NoRequest
            /\ settles' = {}
            /\ params' = JSUndefined
            /\ UNCHANGED used

\* arrayBuffer() settles and getBody runs to its end; bodyData then returns
\* its object.
Settle ==
  /\ pc = "draining"
  /\ \E a \in settles :
       \E s \in {getBody(options, webReq, a)} :
          /\ ab' = a
          /\ value' = IF op = "bodyData" THEN bodyData(params, s.value) ELSE s.value
          /\ onErrorCalls' = s.onError
          /\ try' = s.try
          /\ deliveries' = IF s.value = EmptyObject THEN deliveries ELSE deliveries + 1
  /\ pc' = "done"
  /\ outcome' = "resolved"
  /\ drained' = drained + 1
  /\ settles' = {}
  /\ UNCHANGED <<req, used, calls, op, options, webReq, params, error, by>>

Next ==
  \/ GetBodyCall
  \/ BodyDataCall
  \/ GetParamsCall
  \/ Settle

Spec == Init /\ [][Next]_vars

----------------------------------------------------------------------------
(* Properties *)

\* A getBody call, made directly or by bodyData.
BodyCall == op \in {"getBody", "bodyData"}

\* The body a call resolved to.
Body == IF op = "bodyData" /\ outcome = "resolved" THEN value.props[BodyKey] ELSE value

\* The text decoded from what arrayBuffer() settled with.
Text == TextDecode(ab.bytes)

\* arrayBuffer() gave the bytes and the decoder was constructed.
IsDecoded == ab.ok /\ KnownEncoding(encoding(options))

MalformedJson == <<"{", "a", ":">>

WellFormedJson == <<"{", "\"", "a", "\"", ":", "1", "}">>

UpperLetters ==
  <<"A", "B", "C", "D", "E", "F", "G", "H", "I", "J", "K", "L", "M",
    "N", "O", "P", "Q", "R", "S", "T", "U", "V", "W", "X", "Y", "Z">>

LowerLetters ==
  <<"a", "b", "c", "d", "e", "f", "g", "h", "i", "j", "k", "l", "m",
    "n", "o", "p", "q", "r", "s", "t", "u", "v", "w", "x", "y", "z">>

LowerCase(s) ==
  [i \in 1..Len(s) |->
     IF s[i] \in Upper THEN LowerLetters[CHOOSE k \in 1..26 : UpperLetters[k] = s[i]]
     ELSE s[i]]

\* C1: every getBody call resolves; none rejects, whatever the request and
\* the options are.
C1_GetBodyNeverRejects == (pc = "done" /\ op = "getBody") => outcome = "resolved"

\* The try block failed exactly when the drain failed, the decoder could
\* not be constructed or the body under a JSON content type is no JSON.
DrainFailed == ~ab.ok /\ try.err = ab.err

DecoderFailed == ab.ok /\ ~KnownEncoding(encoding(options)) /\ try.err = "RangeError"

ParseFailed ==
  /\ IsDecoded
  /\ try.branch = "json"
  /\ ~JSONParse(Text).ok
  /\ try.err = "SyntaxError"

Precedence == <<options.contentType, req.contentType, options.backContentType>>

FirstNonEmpty ==
  LET I == {i \in 1..3 : Truthy(Precedence[i])}
  IN IF I = {} THEN <<>> ELSE Precedence[CHOOSE i \in I : \A j \in I : i <= j].v

\* C3: the content type getBody dispatches on is the first non-empty one of
\* options.contentType, the content-type header, options.backContentType
\* and the empty string, and the value resolved to is the one that type
\* selects.
C3_ContentTypePrecedence ==
  (pc = "done" /\ BodyCall /\ try.contentType.has) =>
     /\ try.contentType.v = FirstNonEmpty
     /\ ~try.threw => Body = Dispatch(FirstNonEmpty, Text).value

C3_Witness ==
  /\ pc = "done"
  /\ op = "getBody"
  /\ options.contentType = Some(TextType)
  /\ req.contentType = Some(JsonCharset)
  /\ options.backContentType = Some(JsonType)
  /\ ab.ok /\ ab.bytes = WellFormedJson
  /\ try.contentType = Some(TextType)
  /\ value = TextObject(WellFormedJson)

\* C4: for a non-empty body with raw unset the decoder is selected by a
\* prefix match of the content type that ignores case, so that
\* Application/JSON selects what application/json selects.
C4_DispatchIgnoresCase ==
  (pc = "done" /\ BodyCall /\ outcome = "resolved" /\ try.contentType.has /\ ~try.threw) =>
     Body = Dispatch(LowerCase(try.contentType.v), Text).value

\* C5: when the decoded text is empty the call resolves to {} under all
\* options and content types, no decoder is run and the handler is not
\* called.
C5_EmptyTextIsEmptyObject ==
  (pc = "done" /\ BodyCall /\ IsDecoded /\ Text = <<>>) =>
     /\ outcome = "resolved"
     /\ Body = EmptyObject
     /\ try.branch = "empty"
     /\ ~try.contentType.has
     /\ onErrorCalls = <<>>

C5_Witness ==
  /\ pc = "done"
  /\ op = "getBody"
  /\ ab.ok /\ ab.bytes = BOM
  /\ options.raw
  /\ options.onError
  /\ req.contentType = Some(JsonCharset)
  /\ value = EmptyObject

\* C6: when options.raw is set and the decoded text is not empty the call
\* resolves to { raw: text } under every content type, without running the
\* JSON or the urlencoded decoder and without calling the handler.
C6_RawBypassesDispatch ==
  (pc = "done" /\ BodyCall /\ options.raw /\ IsDecoded /\ Text # <<>>) =>
     /\ outcome = "resolved"
     /\ Body = RawObject(Text)
     /\ try.branch = "raw"
     /\ ~try.contentType.has
     /\ onErrorCalls = <<>>

C6_Witness ==
  /\ pc = "done"
  /\ op = "getBody"
  /\ options.raw
  /\ options.onError
  /\ ~Truthy(options.contentType)
  /\ req.contentType = Some(JsonCharset)
  /\ ab.ok /\ ab.bytes = MalformedJson
  /\ value = RawObject(MalformedJson)
  /\ onErrorCalls = <<>>

UrlParses ==
  \/ req.kind = "web"
  \/ ParseURL(req.url).ok
  \/ req.url # <<>> /\ req.url[1] = "/"

\* bodyData on a request whose url does not parse rejects with the error of
\* the url, raised in the call f; a failure in reading, decoding or parsing
\* the body makes it resolve to the params of getParams and the body {}.
LoudUrlSoftBody(f) ==
  (pc = "done" /\ op = "bodyData") =>
     /\ ~UrlParses =>
          /\ outcome = "rejected"
          /\ error = "TypeError: Invalid URL"
          /\ by = f
     /\ (outcome = "resolved" /\ try.threw) =>
          value = bodyData(getParams(req).value, EmptyObject)

C9_ResolvesToRecord ==
  (pc = "done" /\ op = "getBody" /\ outcome = "resolved") => value.type = "object"

====
